---------------------------- MODULE Spec2Model ----------------------------
(***************************************************************************)
(* A model of keep-up-with-ai-papers: pull_papers.py (the batch            *)
(* downloader, its listing resolver and its document fetcher) and          *)
(* daily_paper_job.py (the filename decoder, the summary generator and     *)
(* the daily driver).                                                      *)
(*                                                                         *)
(* Text (file names, hrefs, command-line dates) is a sequence of           *)
(* one-character strings.  A date is a record [y, m, d].                   *)
(***************************************************************************)
EXTENDS Integers, Sequences, FiniteSets, TLC

VARIABLES
    papersDir,   \* the papers directory: file name -> "complete" | "partial"
    summaries,   \* the summaries directory: file name -> text
    dpc,         \* daily_paper_job.py: position of the driver
    success,     \* daily_paper_job.main: the value of `success`
    genCalls,    \* calls of generate_markdown in the driver's current run
    ppc,         \* pull_papers.py: position of the process
    byDriver,    \* whether the pull_papers.py process is the driver's child
    startDate,   \* pull_papers.main: start_date
    endDate,     \* pull_papers.main: end_date
    cur,         \* daterange: current
    listed,      \* this run: the get_arxiv_ids calls, in order
    ids,         \* pull_papers.main: arxiv_ids of the date being processed
    fetched,     \* this date: the download_arxiv_pdf calls, in order
    last,        \* the last download_arxiv_pdf call and what it did
    steps,       \* process starts and network calls made so far
    faults,      \* failures the environment has produced so far
    served,      \* per date, what its listing page has given so far
    window,      \* daily_paper_job.main: yesterday and today
    cin,         \* codec: the input
    cname,       \* codec: the file name
    cres,        \* codec: what extract_paper_info returned or raised
    padsYear     \* whether strftime of the platform zero-pads %Y

mainVars == <<papersDir, summaries, dpc, success, genCalls, ppc, byDriver,
              startDate, endDate, cur, listed, ids, fetched, last, steps, faults,
              served, window>>
codecVars == <<cin, cname, cres, padsYear>>
vars == <<papersDir, summaries, dpc, success, genCalls, ppc, byDriver,
          startDate, endDate, cur, listed, ids, fetched, last, steps, faults,
          served, window, cin, cname, cres, padsYear>>

-----------------------------------------------------------------------------
(* Bounds of the model.                                                    *)

\* days of the calendar window the runs range over
NumDays == 2
\* starts of pull_papers.py and calls of get_arxiv_ids and
\* download_arxiv_pdf in one behaviour, over all runs
MaxSteps == 8
\* failures (listing failures, statuses other than 200, exceptions) the
\* environment produces in one behaviour
MaxFaults == 2
\* tokens an identifier given to the codec is built from
MaxIdTokens == 2
\* the largest ordinal given to the codec
MaxOrdinal == 11

-----------------------------------------------------------------------------
(* Text.                                                                   *)

DigitChars == <<"0", "1", "2", "3", "4", "5", "6", "7", "8", "9">>

Digits == {"0", "1", "2", "3", "4", "5", "6", "7", "8", "9"}

IsDigit(c) == c \in Digits

DigitVal(c) == (CHOOSE n \in 1..10 : DigitChars[n] = c) - 1

RECURSIVE Dec(_)
\* str(n) of a natural number: f"{i}"
Dec(n) == IF n < 10 THEN <<DigitChars[n + 1]>>
          ELSE Dec(n \div 10) \o <<DigitChars[(n % 10) + 1]>>

RECURSIVE Zeros(_)
Zeros(k) == IF k <= 0 THEN <<>> ELSE <<"0">> \o Zeros(k - 1)

\* %Y, %m, %d of strftime: decimal, zero-padded to the width
Pad(n, w) == Zeros(w - Len(Dec(n))) \o Dec(n)

RECURSIVE ToInt(_)
\* int(s) of a string of digits
ToInt(s) == IF s = <<>> THEN 0
            ELSE 10 * ToInt(SubSeq(s, 1, Len(s) - 1)) + DigitVal(s[Len(s)])

AllDigits(s) == \A k \in 1..Len(s) : IsDigit(s[k])

SetMax(S) == CHOOSE x \in S : \A y \in S : y <= x

SetMin(S) == CHOOSE x \in S : \A y \in S : x <= y

\* s.split("/")[-1] and os.path.basename(s): what follows the last "/"
LastSegment(s) ==
    LET slashes == {k \in 1..Len(s) : s[k] = "/"}
    IN  IF slashes = {} THEN s ELSE SubSeq(s, SetMax(slashes) + 1, Len(s))

-----------------------------------------------------------------------------
(* Dates.                                                                  *)

IsLeap(y) == (y % 4 = 0 /\ y % 100 # 0) \/ y % 400 = 0

DaysInMonth(y, m) ==
    IF m = 2 THEN (IF IsLeap(y) THEN 29 ELSE 28)
    ELSE IF m \in {4, 6, 9, 11} THEN 30 ELSE 31

\* datetime(y, m, d) is a date: otherwise the constructor raises ValueError
ValidDate(y, m, d) ==
    /\ y \in 1..9999
    /\ m \in 1..12
    /\ d \in 1..DaysInMonth(y, m)

\* dt + timedelta(days=1)
NextDay(dt) ==
    IF dt.d < DaysInMonth(dt.y, dt.m) THEN [dt EXCEPT !.d = dt.d + 1]
    ELSE IF dt.m < 12 THEN [y |-> dt.y, m |-> dt.m + 1, d |-> 1]
    ELSE [y |-> dt.y + 1, m |-> 1, d |-> 1]

\* dt - timedelta(days=1)
PrevDay(dt) ==
    IF dt.d > 1 THEN [dt EXCEPT !.d = dt.d - 1]
    ELSE IF dt.m > 1
         THEN [y |-> dt.y, m |-> dt.m - 1, d |-> DaysInMonth(dt.y, dt.m - 1)]
    ELSE [y |-> dt.y - 1, m |-> 12, d |-> 31]

\* a <= b of two datetimes at midnight
DateLE(a, b) ==
    \/ a.y < b.y
    \/ a.y = b.y /\ a.m < b.m
    \/ a.y = b.y /\ a.m = b.m /\ a.d <= b.d

\* %Y of strftime: the four digits of a year from 1000 on; an earlier year
\* comes zero-padded to four digits or bare, as the C library of the
\* platform has it
YearText(y) == IF y >= 1000 \/ ~ padsYear THEN Dec(y) ELSE Pad(y, 4)

\* dt.strftime('%Y%m%d')
StrftimeYmd(dt) == YearText(dt.y) \o Pad(dt.m, 2) \o Pad(dt.d, 2)

\* dt.strftime('%Y-%m-%d')
StrftimeIso(dt) == YearText(dt.y) \o <<"-">> \o Pad(dt.m, 2) \o <<"-">> \o Pad(dt.d, 2)

\* datetime.strptime(s, '%Y%m%d') of eight digits: the year is the first four,
\* the month and the day two each (a one-digit month leaves a digit
\* unconverted); ok is FALSE for the ValueError it raises
StrptimeYmd(s) ==
    LET y == ToInt(SubSeq(s, 1, 4))
        m == ToInt(SubSeq(s, 5, 6))
        d == ToInt(SubSeq(s, 7, 8))
    IN  IF Len(s) = 8 /\ AllDigits(s) /\ ValidDate(y, m, d)
        THEN [ok |-> TRUE, date |-> [y |-> y, m |-> m, d |-> d]]
        ELSE [ok |-> FALSE]

\* datetime.strptime(s, '%Y-%m-%d') of a string strftime('%Y-%m-%d') wrote
StrptimeIso(s) ==
    LET y == ToInt(SubSeq(s, 1, 4))
        m == ToInt(SubSeq(s, 6, 7))
        d == ToInt(SubSeq(s, 9, 10))
    IN  IF /\ Len(s) = 10
           /\ s[5] = "-" /\ s[8] = "-"
           /\ AllDigits(SubSeq(s, 1, 4) \o SubSeq(s, 6, 7) \o SubSeq(s, 9, 10))
           /\ ValidDate(y, m, d)
        THEN [ok |-> TRUE, date |-> [y |-> y, m |-> m, d |-> d]]
        ELSE [ok |-> FALSE]

\* the first day of the calendar window
FirstDay == [y |-> 2024, m |-> 2, d |-> 29]

RECURSIVE DayAt(_)
DayAt(k) == IF k = 0 THEN FirstDay ELSE NextDay(DayAt(k - 1))

Days == {DayAt(k) : k \in 0..(NumDays - 1)}

-----------------------------------------------------------------------------
(* The filename codec.                                                     *)

PaperTag == <<"_", "p", "a", "p", "e", "r">>

DotPdf == <<".", "p", "d", "f">>

\* pull_papers.main: f"{dt.strftime('%Y%m%d')}_paper{i}_{arxiv_id}.pdf"
EncodeFilename(dt, i, arxivId) ==
    StrftimeYmd(dt) \o PaperTag \o Dec(i) \o <<"_">> \o arxivId \o DotPdf

\* the lengths k the group (.+) can take from position q on, \.pdf following:
\* "." matches no line break
IdLengths(s, q) ==
    {k \in 1..(Len(s) - q - 3) :
        /\ \A j \in q..(q + k - 1) : s[j] # "\n"
        /\ SubSeq(s, q + k, q + k + 3) = DotPdf}

\* a non-greedy (.+?): the shortest identifier
IdLengthLazy(s, q) == SetMin(IdLengths(s, q))

\* (.+) is greedy: the longest identifier that \.pdf follows
IdLength(s, q) == SetMax(IdLengths(s, q))

\* the digits \d+ takes from position p on: all of them, since "_" must follow
DigitRun(s, p) ==
    SetMax({n \in 0..(Len(s) - p + 1) : AllDigits(SubSeq(s, p, p + n - 1))})

\* re.match(r'(\d{8})_paper(\d+)_(.+)\.pdf', s): the groups, or ok FALSE
\* for no match.  The match is anchored at the start of s and not at its end.
ReMatch(s) ==
    IF ~ (/\ Len(s) >= 14
          /\ AllDigits(SubSeq(s, 1, 8))
          /\ SubSeq(s, 9, 14) = PaperTag)
    THEN [ok |-> FALSE]
    ELSE LET n == DigitRun(s, 15)
             q == 15 + n + 1
         IN  IF n = 0 \/ Len(s) < 15 + n \/ s[15 + n] # "_" \/ IdLengths(s, q) = {}
             THEN [ok |-> FALSE]
             ELSE [ok        |-> TRUE,
                   date_str  |-> SubSeq(s, 1, 8),
                   paper_num |-> SubSeq(s, 15, 14 + n),
                   arxiv_id  |-> SubSeq(s, q, q + IdLength(s, q) - 1)]

\* extract_paper_info(pdf_path): a record, kind "none" for None, or the
\* ValueError that datetime.strptime raises and nothing catches
ExtractPaperInfo(path) ==
    LET filename == LastSegment(path)
        match == ReMatch(filename)
    IN  IF ~ match.ok THEN [kind |-> "none"]
        ELSE IF ~ StrptimeYmd(match.date_str).ok
             THEN [kind |-> "raised", error |-> "ValueError"]
        ELSE [kind     |-> "record",
              date     |-> StrftimeIso(StrptimeYmd(match.date_str).date),
              number   |-> ToInt(match.paper_num),
              arxiv_id |-> match.arxiv_id,
              filename |-> filename,
              path     |-> path]

-----------------------------------------------------------------------------
(* The codec on its own: extract_paper_info applied to the names that      *)
(* pull_papers.main encodes and to other names a directory may hold.       *)

\* the pieces the identifiers given to the codec are built from
IdTokens == {<<"a">>, <<"_">>, <<".">>, <<"7">>, DotPdf, <<"\n">>}

RECURSIVE IdsOf(_)
IdsOf(n) ==
    IF n = 0 THEN {<<>>}
    ELSE IdsOf(n - 1) \cup {x \o t : x \in IdsOf(n - 1), t \in IdTokens}

CodecIds == IdsOf(MaxIdTokens)

CodecDates ==
    {[y |-> 2024, m |-> 2, d |-> 29], [y |-> 2023, m |-> 12, d |-> 31],
     [y |-> 1000, m |-> 1, d |-> 1], [y |-> 9999, m |-> 10, d |-> 9],
     [y |-> 999, m |-> 1, d |-> 2]}

CodecTriples ==
    [kind : {"triple"}, date : CodecDates, ordinal : 1..MaxOrdinal, id : CodecIds]

\* names that pull_papers.main does not write
RawDateParts ==
    {<<"2", "0", "2", "4", "0", "2", "2", "9">>,
     <<"2", "0", "2", "3", "0", "2", "2", "9">>,
     <<"2", "0", "2", "4", "1", "3", "0", "1">>,
     <<"0", "0", "0", "0", "0", "1", "0", "1">>,
     <<"2", "0", "2", "4", "-", "0", "1", "-", "0", "1">>,
     <<"2", "0", "2", "4", "0", "6", "1">>}

RawNames ==
    {dp \o tag \o num \o sep \o id \o ext :
        dp \in RawDateParts,
        tag \in {PaperTag, <<"_", "p">>},
        num \in {<<"1">>, <<"0", "7">>, <<>>},
        sep \in {<<"_">>, <<>>},
        id \in IdsOf(1),
        ext \in {DotPdf, <<".", "t", "x", "t">>, DotPdf \o <<"x">>}}
    \cup {<<"n", "o", "t", "e", "s", ".", "t", "x", "t">>}

CodecInputs == CodecTriples \cup [kind : {"raw"}, name : RawNames]

CodecUnset == [kind |-> "unset"]

InitCodec ==
    /\ cin \in CodecInputs
    /\ padsYear \in BOOLEAN
    /\ cname = <<>>
    /\ cres = CodecUnset

\* pull_papers.main names the file of (date, ordinal, identifier)
CodecEncode ==
    /\ cin.kind = "triple"
    /\ cname = <<>>
    /\ cname' = EncodeFilename(cin.date, cin.ordinal, cin.id)
    /\ UNCHANGED <<cin, cres, padsYear>>

\* the directory holds a file of another name
CodecOtherFile ==
    /\ cin.kind = "raw"
    /\ cname = <<>>
    /\ cname' = cin.name
    /\ UNCHANGED <<cin, cres, padsYear>>

\* extract_paper_info is applied to the name
CodecDecode ==
    /\ cname # <<>>
    /\ cres = CodecUnset
    /\ cres' = ExtractPaperInfo(cname)
    /\ UNCHANGED <<cin, cname, padsYear>>

-----------------------------------------------------------------------------
(* The environment: the listing pages and the responses of the PDF host.   *)

\* get_arxiv_ids: anchors = soup.select("div.w-full h3 a")[:5]
MaxPapers == 5

PapersPath == <<"/", "p", "a", "p", "e", "r", "s", "/">>

IdA == <<"2", "4", ".", "1">>

IdB == <<"2", "4", ".", "2">>

HrefA == PapersPath \o IdA

HrefB == PapersPath \o IdB

\* what a listing page may hold: the hrefs of its matching anchors, in
\* document order
Pages ==
    {<<>>,
     <<HrefA, HrefB>>,
     <<HrefB, HrefA>>,
     <<HrefA, HrefB, HrefA, HrefB, HrefA, HrefB>>}

\* what requests.get(pdf_url, stream=True) and the streaming of the body do:
\* the request raises; status 200 and the whole body arrives; status 200
\* and iter_content raises part of the way; a status other than 200
Responses == {"request_raises", "ok", "stream_raises", "status_404"}

-----------------------------------------------------------------------------
(* pull_papers.py.                                                         *)

\* no cap: every matching anchor
TakeAll(anchors) == anchors

\* get_arxiv_ids: soup.select(...)[:5]
TakeFirst(anchors) ==
    SubSeq(anchors, 1, IF Len(anchors) < MaxPapers THEN Len(anchors) ELSE MaxPapers)

\* get_arxiv_ids: [a["href"].split("/")[-1] for a in anchors]
ArxivIds(page) ==
    LET anchors == TakeFirst(page)
    IN  [k \in 1..Len(anchors) |-> LastSegment(anchors[k])]

\* a fetcher that never finds the file
FileExistsNever(dir, filename) == FALSE

\* download_arxiv_pdf: os.path.exists(filepath)
FileExists(dir, filename) == filename \in DOMAIN dir

\* open(filepath, "wb") and the writes that reach the file
WriteFile(dir, filename, content) ==
    [f \in DOMAIN dir \cup {filename} |-> IF f = filename THEN content ELSE dir[f]]

\* download_arxiv_pdf(arxiv_id, dest_folder, filename): the directory after
\* the call, what the call did, whether it issued a request and whether it
\* raised.  An exception of iter_content leaves what open() and the earlier
\* writes put there.
DownloadArxivPdf(dir, filename, response) ==
    IF FileExists(dir, filename)
    THEN [dir |-> dir, outcome |-> "skipped", requested |-> FALSE, raised |-> FALSE]
    ELSE IF response = "request_raises"
    THEN [dir |-> dir, outcome |-> "request_error", requested |-> TRUE, raised |-> TRUE]
    ELSE IF response = "ok"
    THEN [dir |-> WriteFile(dir, filename, "complete"), outcome |-> "downloaded",
          requested |-> TRUE, raised |-> FALSE]
    ELSE IF response = "stream_raises"
    THEN [dir |-> WriteFile(dir, filename, "partial"), outcome |-> "stream_error",
          requested |-> TRUE, raised |-> TRUE]
    ELSE [dir |-> dir, outcome |-> "not_found", requested |-> TRUE, raised |-> FALSE]

\* main: time.sleep(1) follows download_arxiv_pdf inside the try block, so
\* an exception of the call skips it
Slept(i, n, raised) == ~ raised /\ i < n

\* a loop that an exception of the fetcher ends
ItemLoopStopsOnError(i, n, raised) == ~ raised /\ i < n

\* main: for i, arxiv_id in enumerate(arxiv_ids, 1) goes on to the next
\* identifier, the except clause having caught what the fetcher raised
ItemLoopContinues(i, n, raised) == i < n

\* daterange: while current <= end_date
DaterangeContinues(current, end) == DateLE(current, end)

NoCall == [called |-> FALSE]

NoWindow == [set |-> FALSE]

NotServed == [seen |-> FALSE, ids |-> <<>>, changed |-> FALSE]

\* the record of a date's listing: the identifiers it gave first, and whether
\* a later listing of the date gave others
Serve(was, found) ==
    IF ~ was.seen THEN [seen |-> TRUE, ids |-> found, changed |-> FALSE]
    ELSE IF was.changed \/ was.ids # found
    THEN [seen |-> TRUE, ids |-> <<>>, changed |-> TRUE]
    ELSE was

\* __main__ of pull_papers.py with --start, --end: strptime of both, then
\* main(sd, ed, out): os.makedirs(out_dir, exist_ok=True) returns or raises
PullStart(startArg, endArg, child) ==
    /\ steps < MaxSteps
    /\ steps' = steps + 1
    /\ byDriver' = child
    /\ listed' = <<>>
    /\ ids' = <<>>
    /\ fetched' = <<>>
    /\ last' = NoCall
    /\ \/ /\ ppc' = "dates"
          /\ startDate' = StrptimeIso(startArg).date
          /\ endDate' = StrptimeIso(endArg).date
          /\ cur' = StrptimeIso(startArg).date
          /\ faults' = faults
       \/ /\ faults < MaxFaults
          /\ faults' = faults + 1
          /\ ppc' = "exit1"
          /\ startDate' = FirstDay
          /\ endDate' = FirstDay
          /\ cur' = FirstDay
    /\ UNCHANGED <<papersDir, summaries, served>>

\* python pull_papers.py --start S --end E from the command line
CliStart ==
    /\ dpc # "pulling"
    /\ ppc \in {"idle", "exit0", "exit1"}
    /\ \E s \in Days, e \in Days :
          PullStart(StrftimeIso(s), StrftimeIso(e), FALSE)
    /\ dpc' = "idle"
    /\ success' = FALSE
    /\ genCalls' = 0
    /\ window' = NoWindow

\* main: one turn of `for dt in daterange(...)` up to the first download:
\* get_arxiv_ids(dt) returns the identifiers or raises, and main goes on
ListDate ==
    /\ ppc = "dates"
    /\ DaterangeContinues(cur, endDate)
    /\ steps < MaxSteps
    /\ steps' = steps + 1
    /\ \/ \E page \in Pages :
            LET found == ArxivIds(page)
            IN  /\ ids' = found
                /\ listed' = Append(listed, [date |-> cur, ok |-> TRUE])
                /\ served' = [served EXCEPT ![cur] = Serve(@, found)]
                /\ IF found = <<>>
                   THEN ppc' = "dates" /\ cur' = NextDay(cur)
                   ELSE ppc' = "items" /\ cur' = cur
                /\ faults' = faults
       \/ /\ faults < MaxFaults
          /\ faults' = faults + 1
          /\ ids' = <<>>
          /\ listed' = Append(listed, [date |-> cur, ok |-> FALSE])
          /\ ppc' = "dates"
          /\ cur' = NextDay(cur)
          /\ served' = served
    /\ fetched' = <<>>
    /\ last' = NoCall
    /\ UNCHANGED <<papersDir, summaries, dpc, success, genCalls, byDriver,
                   startDate, endDate, window>>

\* main: one turn of `for i, arxiv_id in enumerate(arxiv_ids, 1)`
Fetch ==
    /\ ppc = "items"
    /\ steps < MaxSteps
    /\ steps' = steps + 1
    /\ LET i == Len(fetched) + 1
           n == Len(ids)
           filename == EncodeFilename(cur, i, ids[i])
       IN  \E response \in Responses :
              LET r == DownloadArxivPdf(papersDir, filename, response)
                  fault == r.outcome \in {"request_error", "stream_error", "not_found"}
              IN  /\ r.outcome = "skipped" => response = "ok"
                  /\ fault => faults < MaxFaults
                  /\ faults' = IF fault THEN faults + 1 ELSE faults
                  /\ papersDir' = r.dir
                  /\ fetched' = Append(fetched,
                        [ord |-> i, id |-> ids[i], raised |-> r.raised])
                  /\ last' = [called |-> TRUE, ord |-> i, filename |-> filename,
                              before |-> IF filename \in DOMAIN papersDir
                                         THEN papersDir[filename] ELSE "absent",
                              outcome |-> r.outcome, requested |-> r.requested,
                              raised |-> r.raised,
                              slept |-> Slept(i, n, r.raised)]
                  /\ IF ItemLoopContinues(i, n, r.raised)
                     THEN ppc' = "items" /\ cur' = cur
                     ELSE ppc' = "dates" /\ cur' = NextDay(cur)
    /\ UNCHANGED <<summaries, dpc, success, genCalls, byDriver, startDate,
                   endDate, listed, ids, served, window>>

\* main returns, "Script completed successfully", exit status 0: the
\* process and its variables are gone
PullExit ==
    /\ ppc = "dates"
    /\ ~ DaterangeContinues(cur, endDate)
    /\ ppc' = "exit0"
    /\ startDate' = FirstDay
    /\ endDate' = FirstDay
    /\ cur' = FirstDay
    /\ listed' = <<>>
    /\ ids' = <<>>
    /\ fetched' = <<>>
    /\ last' = NoCall
    /\ UNCHANGED <<papersDir, summaries, dpc, success, genCalls, byDriver,
                   window, steps, faults, served>>

-----------------------------------------------------------------------------
(* daily_paper_job.py.                                                     *)

\* generate_markdown(papers_dir, markdown_dir, start_date, end_date): the
\* function starts at `for paper in papers`, and no statement of the
\* function or of the module binds `papers` (nor `markitdown`): the loop
\* header raises NameError before a file is read or written
GenerateMarkdown(papers, markdown, startD, endD) ==
    [raised |-> TRUE, error |-> "NameError", markdown |-> markdown, written |-> {}]

\* generate_markdown: f"{os.path.splitext(paper['filename'])[0]}.md", the
\* name of the summary of a paper file
MdFilename(filename) ==
    LET dots == {k \in 2..Len(filename) : filename[k] = "."}
        stem == IF dots = {} THEN filename
                ELSE SubSeq(filename, 1, SetMax(dots) - 1)
    IN  stem \o <<".", "m", "d">>

\* a driver that summarises whatever the puller reported
ShouldGenerateAlways(ok) == TRUE

\* main: if success
ShouldGenerate(ok) == ok

\* main up to the subprocess: today at midnight, yesterday, and
\* run_paper_puller(yesterday, today, papers_dir) starts pull_papers.py
DailyStart ==
    /\ dpc \in {"idle", "exit0", "exit1"}
    /\ ppc \in {"idle", "exit0", "exit1"}
    /\ \E today \in Days :
          LET yesterday == PrevDay(today)
          IN  /\ yesterday \in Days
              /\ PullStart(StrftimeIso(yesterday), StrftimeIso(today), TRUE)
              /\ window' = [set |-> TRUE, yesterday |-> yesterday, today |-> today]
    /\ dpc' = "pulling"
    /\ genCalls' = 0
    /\ success' = FALSE

\* run_paper_puller returns True for exit status 0 and False for
\* CalledProcessError; main then calls generate_markdown if success, and
\* what generate_markdown raises reaches __main__: sys.exit(1)
DailyAfterPull ==
    /\ dpc = "pulling"
    /\ ppc \in {"exit0", "exit1"}
    /\ byDriver
    /\ LET ok == (ppc = "exit0")
           g == GenerateMarkdown(papersDir, summaries, window.yesterday, window.today)
       IN  /\ success' = ok
           /\ IF ShouldGenerate(ok)
              THEN /\ genCalls' = genCalls + 1
                   /\ summaries' = g.markdown
                   /\ dpc' = IF g.raised THEN "exit1" ELSE "exit0"
              ELSE /\ genCalls' = genCalls
                   /\ summaries' = summaries
                   /\ dpc' = "exit0"
    /\ ppc' = "idle"
    /\ UNCHANGED <<papersDir, byDriver, startDate, endDate, cur, listed, ids,
                   fetched, last, steps, faults, served, window>>

-----------------------------------------------------------------------------
(* The specifications.                                                     *)

CodecOff == [kind |-> "off"]

InitMain ==
    /\ papersDir = <<>>
    /\ summaries = <<>>
    /\ dpc = "idle"
    /\ success = FALSE
    /\ genCalls = 0
    /\ ppc = "idle"
    /\ byDriver = FALSE
    /\ startDate = FirstDay
    /\ endDate = FirstDay
    /\ cur = FirstDay
    /\ listed = <<>>
    /\ ids = <<>>
    /\ fetched = <<>>
    /\ last = NoCall
    /\ steps = 0
    /\ faults = 0
    /\ served = [d \in Days |-> NotServed]
    /\ window = NoWindow

Init ==
    /\ InitMain
    /\ cin = CodecOff
    /\ cname = <<>>
    /\ cres = CodecUnset
    /\ padsYear = FALSE

Next ==
    \/ CliStart /\ UNCHANGED codecVars
    \/ DailyStart /\ UNCHANGED codecVars
    \/ ListDate /\ UNCHANGED codecVars
    \/ Fetch /\ UNCHANGED codecVars
    \/ PullExit /\ UNCHANGED codecVars
    \/ DailyAfterPull /\ UNCHANGED codecVars

Spec == Init /\ [][Next]_vars

CodecInit ==
    /\ InitMain
    /\ InitCodec

CodecNext ==
    \/ CodecEncode /\ UNCHANGED mainVars
    \/ CodecOtherFile /\ UNCHANGED mainVars
    \/ CodecDecode /\ UNCHANGED mainVars

SpecCodec == CodecInit /\ [][CodecNext]_vars

-----------------------------------------------------------------------------
(* The claims.                                                             *)

RECURSIVE DaysBeforeMonth(_, _)
DaysBeforeMonth(y, m) ==
    IF m = 1 THEN 0 ELSE DaysBeforeMonth(y, m - 1) + DaysInMonth(y, m - 1)

\* the number of the day dt, counting 0001-01-01 as day 1
ToOrdinal(dt) ==
    LET py == dt.y - 1
    IN  365 * py + (py \div 4) - (py \div 100) + (py \div 400)
          + DaysBeforeMonth(dt.y, dt.m) + dt.d

\* how many dates lie from s to e inclusive
DatesInRange(s, e) ==
    IF ToOrdinal(e) >= ToOrdinal(s) THEN ToOrdinal(e) - ToOrdinal(s) + 1 ELSE 0

Running == ppc \in {"dates", "items"}

\* C1: a download_arxiv_pdf call whose destination already holds a file
\* issues no request and leaves the file as it was, so a file once written is
\* never overwritten or deleted and a second call for it performs no request.
C1_ExistingFileUntouched ==
    (last.called /\ last.before # "absent") =>
        /\ ~ last.requested
        /\ last.outcome = "skipped"
        /\ last.filename \in DOMAIN papersDir
        /\ papersDir[last.filename] = last.before

\* C1 witness: a later run called the fetcher for a file that an earlier run
\* had downloaded.
C1_Witness ==
    /\ last.called
    /\ last.before = "complete"
    /\ last.outcome = "skipped"

C2_Inv ==
    Running =>
        /\ Len(listed) <= DatesInRange(startDate, endDate)
        /\ \A k \in 1..Len(listed) :
              ToOrdinal(listed[k].date) = ToOrdinal(startDate) + k - 1
        /\ Len(fetched) <= Len(ids)
        /\ \A k \in 1..Len(fetched) :
              fetched[k].ord = k /\ fetched[k].id = ids[k]
        /\ ppc = "dates" => Len(fetched) = Len(ids)
        /\ ppc = "items" => listed # <<>> /\ listed[Len(listed)].ok
                            /\ listed[Len(listed)].date = cur

C2_AtExit ==
    (Running /\ ppc' = "exit0") =>
        /\ Len(listed) = DatesInRange(startDate, endDate)
        /\ Len(fetched) = Len(ids)

\* C2: in one run get_arxiv_ids is called exactly once for every date from
\* start to end inclusive, in chronological order (never when start > end),
\* and download_arxiv_pdf exactly once for every identifier of a successful
\* listing, in listing order, whatever failed before; the run ends only when
\* all of it is done.
C2_EveryDateAndIdentifierOnce == [] C2_Inv /\ [][C2_AtExit]_vars

\* C2 witness: the listing of the first date failed, a later date was listed,
\* its first download raised and its second download was still made.
C2_Witness ==
    /\ Running
    /\ Len(listed) >= 2
    /\ ~ listed[1].ok
    /\ Len(fetched) >= 2
    /\ fetched[1].raised

\* C3: after every download_arxiv_pdf call with ordinal i < n, whatever the
\* call did, main sleeps before the call for ordinal i + 1, and it never
\* sleeps after the call with ordinal n.
C3_SleepAfterEveryCallButLast ==
    last.called => (last.slept <=> last.ord < Len(ids))

C4_Inv ==
    /\ genCalls <= 1
    /\ dpc = "pulling" => (genCalls = 0 /\ ppc # "idle" /\ byDriver)
    /\ genCalls = 1 => (success /\ dpc # "pulling")

C4_Step ==
    /\ genCalls' > genCalls => (dpc = "pulling" /\ ppc = "exit0")
    /\ (dpc = "pulling" /\ ppc = "exit1" /\ dpc' # "pulling") =>
          (summaries' = summaries /\ genCalls' = 0 /\ ~ success')

\* C4: in a run of the driver the puller is started first, generate_markdown
\* is called at most once, only after the puller has ended and only if its
\* exit status was 0; when the puller failed no summary is created or changed.
C4_SummariseOnlyAfterSuccess == [] C4_Inv /\ [][C4_Step]_vars

\* C4 witness: a run of the driver whose puller failed has ended.
C4_Witness ==
    /\ window.set
    /\ dpc = "exit0"
    /\ ~ success
    /\ genCalls = 0

HasLineBreak(s) == \E k \in 1..Len(s) : s[k] = "\n"

\* the date in YYYY-MM-DD form
IsoForm(dt) == Pad(dt.y, 4) \o <<"-">> \o Pad(dt.m, 2) \o <<"-">> \o Pad(dt.d, 2)

RoundTrips ==
    /\ cres.kind = "record"
    /\ cres.date = IsoForm(cin.date)
    /\ cres.number = cin.ordinal
    /\ cres.arxiv_id = cin.id

\* C5 as stated: for every date, ordinal and identifier that main can encode,
\* extract_paper_info of the encoded name gives back the date, the ordinal
\* and the identifier.
C5_RoundTripEveryIdentifier ==
    (cin.kind = "triple" /\ cres.kind # "unset") => RoundTrips

\* C5 as amended: the same for every date from the year 1000 on and every
\* identifier that is not empty and holds no line break.
C5_RoundTrip ==
    (cin.kind = "triple" /\ cres.kind # "unset" /\ cin.date.y >= 1000
        /\ cin.id # <<>> /\ ~ HasLineBreak(cin.id)) => RoundTrips

\* C5 witness: a name whose identifier holds an underscore and ".pdf" was
\* decoded.
C5_Witness ==
    /\ cin.kind = "triple"
    /\ cin.id = <<"_">> \o DotPdf
    /\ cin.ordinal >= 10
    /\ cres.kind = "record"

\* C6: extract_paper_info returns a record or None for every file name and
\* never fails with an error; a name that is not a well-formed paper file
\* name gives None.
C6_DecodeNeverRaises ==
    cres.kind \in {"unset", "none", "record"}

\* the paper files generate_markdown is to summarise: those that decode,
\* with a date in the window
Selected(f) ==
    LET rec == ExtractPaperInfo(f)
    IN  /\ rec.kind = "record"
        /\ DateLE(window.yesterday, StrptimeIso(rec.date).date)
        /\ DateLE(StrptimeIso(rec.date).date, window.today)

GenerateEnded == window.set /\ dpc # "pulling" /\ genCalls = 1

\* C7: in a run of generate_markdown every selected file whose conversion
\* does not raise gets its summary written, the others get none, and the run
\* returns the paths written.
C7_EveryOtherFileSummarised ==
    GenerateEnded =>
        /\ dpc = "exit0"
        /\ \A f \in DOMAIN papersDir :
              Selected(f) => MdFilename(f) \in DOMAIN summaries

\* C8: a run of generate_markdown in which all conversions succeed writes the
\* summary of a file of the papers directory if and only if the file decodes
\* and its date lies in the range.
C8_SummaryIffSelected ==
    GenerateEnded =>
        \A f \in DOMAIN papersDir :
            Selected(f) <=> MdFilename(f) \in DOMAIN summaries

\* C9: after any calls of download_arxiv_pdf a file present at a destination
\* holds the complete body of one success response: a call that gets another
\* status or that raises, also while the body is streamed, leaves no file
\* unless one existed.
C9_EveryFileComplete ==
    \A f \in DOMAIN papersDir : papersDir[f] = "complete"

\* the files of the papers directory named for date dt
FilesOf(dt) ==
    LET ymd == StrftimeYmd(dt)
    IN  {f \in DOMAIN papersDir : SubSeq(f, 1, 8) = ymd}

\* where the ordinal of a paper file name ends: the first "_" after "_paper"
OrdinalEnd(f) == SetMin({k \in 15..Len(f) : f[k] = "_"})

\* the ordinals, as written, of the files
OrdinalsOf(files) == {SubSeq(f, 15, OrdinalEnd(f) - 1) : f \in files}

\* the identifiers of the files
IdentifiersOf(files) == {SubSeq(f, OrdinalEnd(f) + 1, Len(f) - 4) : f \in files}

NoRepeat(s) == \A j, k \in 1..Len(s) : s[j] = s[k] => j = k

\* C10 as stated: after any runs the directory holds at most one document per
\* (date, ordinal) pair and per (date, identifier) pair, hence at most 5 per
\* date.
C10_OnePerOrdinalAndIdentifier ==
    \A dt \in Days :
        LET files == FilesOf(dt)
        IN  /\ Cardinality(OrdinalsOf(files)) = Cardinality(files)
            /\ Cardinality(IdentifiersOf(files)) = Cardinality(files)
            /\ Cardinality(files) <= MaxPapers

\* C10 as amended: for a date whose listing gave the same identifiers in every
\* run, the directory holds at most one document per ordinal, hence at most
\* 5, and at most one per identifier if the listing repeats none.
C10_OnePerOrdinalWhileListingStable ==
    \A dt \in Days :
        ~ served[dt].changed =>
            LET files == FilesOf(dt)
            IN  /\ Cardinality(OrdinalsOf(files)) = Cardinality(files)
                /\ Cardinality(files) <= MaxPapers
                /\ NoRepeat(served[dt].ids) =>
                      Cardinality(IdentifiersOf(files)) = Cardinality(files)

\* C10 witness: two runs listed the same date with the same identifiers, and
\* the second found the documents of the first.
C10_Witness ==
    \E dt \in Days :
        /\ served[dt].seen
        /\ ~ served[dt].changed
        /\ Cardinality(FilesOf(dt)) >= 2
        /\ last.called
        /\ last.outcome = "skipped"
        /\ last.filename \in FilesOf(dt)

=============================================================================
